---------------------------- MODULE Spec2Model ----------------------------
(***************************************************************************)
(* Scan conversion of polygons on a canvas with draggable points           *)
(* (Project1_src/scanConversion.js).                                       *)
(*                                                                         *)
(* The canvas owns an array of Point objects and an array of Polygon       *)
(* objects.  A Polygon holds references to Point objects of the canvas     *)
(* (initCanvas builds it from canvas.points[i]); a reference is modelled   *)
(* by the index of the Point in canvas.points, so that a Point has one     *)
(* storage cell and every Polygon reads that cell.                         *)
(*                                                                         *)
(* Numbers: coordinates are integers; the x-coordinate of an intersection  *)
(* is the exact rational the expression of getIntersection denotes, kept   *)
(* as a reduced fraction <<num, den>> with den > 0 (IEEE rounding of the   *)
(* division is not modelled).  NaN is the fraction <<0, 0>>.               *)
(***************************************************************************)
EXTENDS Integers, Sequences, FiniteSets

VARIABLES
    points,       \* canvas.points: sequence of Point records [x, y, z]
    polygons,     \* canvas.polygons: sequence of Polygon records
    drag_flag,    \* addDragHandler: var drag_flag
    drag_point,   \* addDragHandler: var drag_point (index into points, 0 = null)
    drag_offset,  \* addDragHandler: var drag_offset
    last,         \* the handler that ran last: its name, its input, what it threw
    ops           \* the calls that handler made on the drawing context, in order

vars == <<points, polygons, drag_flag, drag_point, drag_offset, last, ops>>

-----------------------------------------------------------------------------
(* Program constants *)

POINT_RADIUS == 10

\* ALPHA = 0.5, as a fraction
ALPHA == <<1, 2>>

(* Bounds of the model *)

\* canvasSize.maxX and canvasSize.maxY, the surface dimensions
Width == 10

Height == 2

MaxPoints == 3

MaxPolygons == 2

\* vertex coordinates of the scenes FillInit enumerates
GridX == 2

GridY == 3

-----------------------------------------------------------------------------
(* Rational numbers *)

Abs(n) == IF n < 0 THEN -n ELSE n

RECURSIVE GCD(_, _)
GCD(a, b) == IF b = 0 THEN a ELSE GCD(b, a % b)

NaN == <<0, 0>>

isNaN(f) == f[2] = 0

\* the rational n/d, d # 0, reduced
Frac(n, d) ==
    LET g == GCD(Abs(n), Abs(d))
        s == IF d < 0 THEN -1 ELSE 1
    IN  <<(s * n) \div g, (s * d) \div g>>

Num(n) == <<n, 1>>

FracLess(a, b) == a[1] * b[2] < b[1] * a[2]

FracLeq(a, b) == a[1] * b[2] <= b[1] * a[2]

-----------------------------------------------------------------------------
(* Point and Polygon *)

Point(x, y, z) == [x |-> x, y |-> y, z |-> z]

\* new Polygon(points, color): points are references (indices into canvas.points)
Polygon(pts, color) == [points |-> pts, color |-> color]

\* the Point objects a polygon's references denote, given the canvas' points
Deref(polygon, pts) == [i \in DOMAIN polygon.points |-> pts[polygon.points[i]]]

\* getIntersection interpolating from the upper end point's x
getIntersectionFromUpper(p1, p2, y) ==
    IF p1.y = p2.y \/ y < p1.y \/ y >= p2.y
    THEN NaN
    ELSE Frac(p2.x * (p2.y - p1.y) + (p2.x - p1.x) * (y - p1.y), p2.y - p1.y)

\* getIntersection with the edge closed at its upper end, [p1, p2]
getIntersectionClosed(p1, p2, y) ==
    IF p1.y = p2.y \/ y < p1.y \/ y > p2.y
    THEN NaN
    ELSE Frac(p1.x * (p2.y - p1.y) + (p2.x - p1.x) * (y - p1.y), p2.y - p1.y)

\* Polygon.getIntersection(p1, p2, y)
getIntersection(p1, p2, y) ==
    IF p1.y = p2.y \/ y < p1.y \/ y >= p2.y
    THEN NaN
    ELSE Frac(p1.x * (p2.y - p1.y) + (p2.x - p1.x) * (y - p1.y), p2.y - p1.y)

\* fill: the edges not parallel to the scan lines, each sorted by y
Edges(ps) ==
    LET n == Len(ps)
        all == [i \in 1..n |-> <<ps[i], ps[(i % n) + 1]>>]
        kept == SelectSeq(all, LAMBDA e : e[1].y # e[2].y)
    IN  [i \in DOMAIN kept |->
            IF kept[i][1].y - kept[i][2].y > 0
            THEN <<kept[i][2], kept[i][1]>>
            ELSE kept[i]]

RECURSIVE Insert(_, _)
Insert(s, a) ==
    IF s = <<>> THEN <<a>>
    ELSE IF FracLess(a, s[Len(s)]) THEN Append(Insert(SubSeq(s, 1, Len(s) - 1), a), s[Len(s)])
    ELSE Append(s, a)

\* intersection_x_coordinates.sort((a, b) => a - b)
RECURSIVE SortAsc(_)
SortAsc(s) == IF s = <<>> THEN <<>> ELSE Insert(SortAsc(SubSeq(s, 1, Len(s) - 1)), s[Len(s)])

\* fill: intersection_x_coordinates of scan line y, sorted
Intersections(edges, y) ==
    SortAsc(SelectSeq([i \in DOMAIN edges |-> getIntersection(edges[i][1], edges[i][2], y)],
                      LAMBDA x : ~isNaN(x)))

\* moveTo(x1, y); lineTo(x2, y); stroke() with the polygon's colour
Span(x1, x2, y, color) == [op |-> "span", x1 |-> x1, x2 |-> x2, y |-> y, color |-> color]

\* fill: the pairing loop, for (i = 0; i < length; i += 2); an index past the
\* end reads undefined, which the context takes as NaN
ScanLine(xs, y, color) ==
    [k \in 1..((Len(xs) + 1) \div 2) |->
        Span(xs[2 * k - 1], IF 2 * k <= Len(xs) THEN xs[2 * k] ELSE NaN, y, color)]

RECURSIVE SeqMin(_)
SeqMin(s) == IF Len(s) = 1 THEN s[1]
             ELSE LET m == SeqMin(Tail(s)) IN IF s[1] < m THEN s[1] ELSE m

RECURSIVE SeqMax(_)
SeqMax(s) == IF Len(s) = 1 THEN s[1]
             ELSE LET m == SeqMax(Tail(s)) IN IF s[1] > m THEN s[1] ELSE m

minY(ps) == SeqMin([i \in DOMAIN ps |-> ps[i].y])

maxY(ps) == SeqMax([i \in DOMAIN ps |-> ps[i].y])

\* fill: the scan loop from row y on, for (y = minY; y < maxY; y++)
RECURSIVE ScanFrom(_, _, _, _)
ScanFrom(edges, y, top, color) ==
    IF y < top
    THEN ScanLine(Intersections(edges, y), y, color) \o ScanFrom(edges, y + 1, top, color)
    ELSE <<>>

\* Polygon.fill(ctx) of a polygon with vertices ps: the spans it strokes
fill(ps, color) == ScanFrom(Edges(ps), minY(ps), maxY(ps), color)

-----------------------------------------------------------------------------
(* Canvas *)

\* isOutOfBounds with the upper bounds excluded
isOutOfBoundsExclusive(point) ==
    point.x < 0 \/ point.x >= Width \/ point.y < 0 \/ point.y >= Height

\* isOutOfBounds without the lower bounds
isOutOfBoundsUpperOnly(point) ==
    point.x > Width \/ point.y > Height

\* Canvas.isOutOfBounds(point)
isOutOfBounds(point) ==
    point.x < 0 \/ point.x > Width \/ point.y < 0 \/ point.y > Height

\* ctx.clearRect(-0.5, -0.5, width, height), the context being translated by 0.5
ClearRect == [op |-> "clear", x |-> <<-1, 2>>, y |-> <<-1, 2>>, w |-> Width, h |-> Height]

\* Point.draw(ctx, radius)
draw(p, radius) == [op |-> "circle", x |-> p.x, y |-> p.y, r |-> radius]

RECURSIVE FillAll(_, _)
FillAll(polys, pts) ==
    IF polys = <<>> THEN <<>>
    ELSE fill(Deref(Head(polys), pts), Head(polys).color) \o FillAll(Tail(polys), pts)

\* clear_and_draw filling the polygons before it draws the points
RenderPolygonsFirst(pts, polys) ==
    <<ClearRect>> \o FillAll(polys, pts) \o [i \in DOMAIN pts |-> draw(pts[i], POINT_RADIUS)]

\* the context calls of Canvas.clear_and_draw() on a canvas with these points and polygons
Render(pts, polys) ==
    <<ClearRect>> \o [i \in DOMAIN pts |-> draw(pts[i], POINT_RADIUS)] \o FillAll(polys, pts)

Ran(name, arg, err) == [name |-> name, arg |-> arg, err |-> err]

\* the Points a caller passes to addPoint: the corners of the surface and
\* places one unit beyond its sides
PointInputs ==
    {Point(x, y, 0) : x \in {0, Width}, y \in {0, Height}}
        \cup {Point(-1, 0, 0), Point(Width + 1, Height, 0),
              Point(0, -1, 0), Point(Width, Height + 1, 0)}

\* the index lists initCanvas builds polygons from (config: polygon)
PolygonShapes == {<<1, 2, 3>>, <<2, 1, 2>>}

\* the places pointer events arrive at (e.offsetX, e.offsetY): two corners
\* of the surface
Pointers == {<<0, 0>>, <<Width, 0>>}

\* Canvas.addPoint(point)
AddPoint(point) ==
    /\ Len(points) < MaxPoints
    /\ IF isOutOfBounds(point)
       THEN /\ last' = Ran("addPoint", <<point.x, point.y, point.z>>, "Point out of bounds")
            /\ UNCHANGED points
       ELSE /\ points' = Append(points, point)
            /\ last' = Ran("addPoint", <<point.x, point.y, point.z>>, "")
    /\ ops' = <<>>
    /\ UNCHANGED <<polygons, drag_flag, drag_point, drag_offset>>

\* initCanvas: new Polygon(p.map(i => canvas.points[i]), vertex_color[p[0]].concat(ALPHA));
\* the colour table of the configuration is kept symbolic: the colour is named
\* by the index it is looked up with
NewPolygon(p) == Polygon(p, <<p[1], ALPHA>>)

\* addPolygon testing the first vertex only
AddPolygonFirstVertex(polygon) ==
    /\ Len(polygons) < MaxPolygons
    /\ \A i \in DOMAIN polygon.points : polygon.points[i] \in DOMAIN points
    /\ IF isOutOfBounds(points[polygon.points[1]])
       THEN /\ last' = Ran("addPolygon", polygon.points, "Polygon out of bounds")
            /\ UNCHANGED polygons
       ELSE /\ polygons' = Append(polygons, polygon)
            /\ last' = Ran("addPolygon", polygon.points, "")
    /\ ops' = <<>>
    /\ UNCHANGED <<points, drag_flag, drag_point, drag_offset>>

\* Canvas.addPolygon(polygon)
AddPolygon(polygon) ==
    /\ Len(polygons) < MaxPolygons
    /\ \A i \in DOMAIN polygon.points : polygon.points[i] \in DOMAIN points
    /\ IF \E i \in DOMAIN polygon.points : isOutOfBounds(points[polygon.points[i]])
       THEN /\ last' = Ran("addPolygon", polygon.points, "Polygon out of bounds")
            /\ UNCHANGED polygons
       ELSE /\ polygons' = Append(polygons, polygon)
            /\ last' = Ran("addPolygon", polygon.points, "")
    /\ ops' = <<>>
    /\ UNCHANGED <<points, drag_flag, drag_point, drag_offset>>

\* Canvas.clear_and_draw()
ClearAndDraw ==
    /\ ops' = Render(points, polygons)
    /\ last' = Ran("clear_and_draw", <<>>, "")
    /\ UNCHANGED <<points, polygons, drag_flag, drag_point, drag_offset>>

-----------------------------------------------------------------------------
(* addDragHandler *)

\* the hit test with the circle's boundary excluded
HitInside(p, x, y) ==
    (p.x - x) * (p.x - x) + (p.y - y) * (p.y - y) < POINT_RADIUS * POINT_RADIUS

\* the predicate of canvas.points.find in the mousedown listener
Hit(p, x, y) ==
    (p.x - x) * (p.x - x) + (p.y - y) * (p.y - y) <= POINT_RADIUS * POINT_RADIUS

\* canvas.points.find(...): the index of the first point hit, 0 when none is
Find(pts, x, y) ==
    IF \E i \in DOMAIN pts : Hit(pts[i], x, y)
    THEN CHOOSE i \in DOMAIN pts :
            Hit(pts[i], x, y) /\ \A j \in 1..(i - 1) : ~Hit(pts[j], x, y)
    ELSE 0

\* the mousedown listener
MouseDown(x, y) ==
    LET point == Find(points, x, y) IN
    /\ IF point # 0
       THEN /\ drag_flag' = TRUE
            /\ drag_point' = point
            /\ drag_offset' = <<x - points[point].x, y - points[point].y>>
       ELSE UNCHANGED <<drag_flag, drag_point, drag_offset>>
    /\ last' = Ran("mousedown", <<x, y>>, "")
    /\ ops' = <<>>
    /\ UNCHANGED <<points, polygons>>

\* mousemove placing the point at the pointer, the offset dropped
MouseMoveNoOffset(x, y) ==
    /\ IF drag_flag
       THEN /\ points' = [points EXCEPT ![drag_point].x = x, ![drag_point].y = y]
            /\ ops' = Render(points', polygons)
       ELSE /\ UNCHANGED points
            /\ ops' = <<>>
    /\ last' = Ran("mousemove", <<x, y>>, "")
    /\ UNCHANGED <<polygons, drag_flag, drag_point, drag_offset>>

\* mousemove redrawing before it moves the point
MouseMoveDrawFirst(x, y) ==
    /\ IF drag_flag
       THEN /\ ops' = Render(points, polygons)
            /\ points' = [points EXCEPT ![drag_point].x = x - drag_offset[1],
                                        ![drag_point].y = y - drag_offset[2]]
       ELSE /\ UNCHANGED points
            /\ ops' = <<>>
    /\ last' = Ran("mousemove", <<x, y>>, "")
    /\ UNCHANGED <<polygons, drag_flag, drag_point, drag_offset>>

\* the mousemove listener
MouseMove(x, y) ==
    /\ IF drag_flag
       THEN /\ points' = [points EXCEPT ![drag_point].x = x - drag_offset[1],
                                        ![drag_point].y = y - drag_offset[2]]
            /\ ops' = Render(points', polygons)
       ELSE /\ UNCHANGED points
            /\ ops' = <<>>
    /\ last' = Ran("mousemove", <<x, y>>, "")
    /\ UNCHANGED <<polygons, drag_flag, drag_point, drag_offset>>

\* mouseup that keeps the grabbed point
MouseUpKeepsPoint ==
    /\ drag_flag' = FALSE
    /\ last' = Ran("mouseup", <<>>, "")
    /\ ops' = <<>>
    /\ UNCHANGED <<points, polygons, drag_point, drag_offset>>

\* the mouseup listener
MouseUp ==
    /\ drag_flag' = FALSE
    /\ drag_point' = 0
    /\ last' = Ran("mouseup", <<>>, "")
    /\ ops' = <<>>
    /\ UNCHANGED <<points, polygons, drag_offset>>

-----------------------------------------------------------------------------
(* The canvas and its listeners *)

\* new Canvas(dom, width, height), then addDragHandler's variables
Init ==
    /\ points = <<>>
    /\ polygons = <<>>
    /\ drag_flag = FALSE
    /\ drag_point = 0
    /\ drag_offset = <<0, 0>>
    /\ last = Ran("new Canvas", <<>>, "")
    /\ ops = <<>>

\* the methods of the canvas and the listeners, one call or event at a time
\* (each runs to completion before the next), in any order
Next ==
    \/ \E point \in PointInputs : AddPoint(point)
    \/ \E p \in PolygonShapes : AddPolygon(NewPolygon(p))
    \/ ClearAndDraw
    \/ \E e \in Pointers : MouseDown(e[1], e[2])
    \/ \E e \in Pointers : MouseMove(e[1], e[2])
    \/ MouseUp

Spec == Init /\ [][Next]_vars


-----------------------------------------------------------------------------
(* The fill of one polygon: the canvas as initCanvas leaves it for a       *)
(* configuration of three or four vertices on a grid and one polygon       *)
(* through all of them in order, then clear_and_draw.                      *)

VertexCounts == {3, 4}

GridPoints == {Point(x, y, 0) : x \in 0..GridX, y \in 0..GridY}

FillInit ==
    /\ \E n \in VertexCounts :
          /\ points \in [1..n -> GridPoints]
          /\ polygons = <<NewPolygon([i \in 1..n |-> i])>>
          /\ last = Ran("addPolygon", [i \in 1..n |-> i], "")
    /\ drag_flag = FALSE
    /\ drag_point = 0
    /\ drag_offset = <<0, 0>>
    /\ ops = <<>>

FillNext == ClearAndDraw

FillSpec == FillInit /\ [][FillNext]_vars

-----------------------------------------------------------------------------
(* Geometry the properties are stated with *)

Spans(o) == SelectSeq(o, LAMBDA r : r.op = "span")

Circles(o) == SelectSeq(o, LAMBDA r : r.op = "circle")

Succ(ps, i) == (i % Len(ps)) + 1

Cross(a, b, c) == (b.x - a.x) * (c.y - a.y) - (b.y - a.y) * (c.x - a.x)

\* a convex polygon: distinct vertices, not all on one line, and every vertex
\* on the same side of (or on) the line through every edge
Convex(ps) ==
    /\ Len(ps) >= 3
    /\ \A i, j \in DOMAIN ps : i # j => <<ps[i].x, ps[i].y>> # <<ps[j].x, ps[j].y>>
    /\ \E i, k \in DOMAIN ps : Cross(ps[i], ps[Succ(ps, i)], ps[k]) # 0
    /\ \/ \A i, k \in DOMAIN ps : Cross(ps[i], ps[Succ(ps, i)], ps[k]) >= 0
       \/ \A i, k \in DOMAIN ps : Cross(ps[i], ps[Succ(ps, i)], ps[k]) <= 0

Lowest(ps) == CHOOSE y \in {ps[i].y : i \in DOMAIN ps} : \A k \in DOMAIN ps : y <= ps[k].y

Highest(ps) == CHOOSE y \in {ps[i].y : i \in DOMAIN ps} : \A k \in DOMAIN ps : y >= ps[k].y

\* where the boundary (every edge, closed at both ends, horizontal ones
\* included) meets row y
BoundaryXs(ps, y) ==
    UNION { LET a == ps[i]
                b == ps[Succ(ps, i)]
            IN  IF a.y = b.y
                THEN (IF a.y = y THEN {Num(a.x), Num(b.x)} ELSE {})
                ELSE IF (a.y <= y /\ y <= b.y) \/ (b.y <= y /\ y <= a.y)
                THEN {Frac(a.x * (b.y - a.y) + (b.x - a.x) * (y - a.y), b.y - a.y)}
                ELSE {}
          : i \in DOMAIN ps }

LeftMost(xs) == CHOOSE x \in xs : \A u \in xs : FracLeq(x, u)

RightMost(xs) == CHOOSE x \in xs : \A u \in xs : FracLeq(u, x)

\* the edges (as vertex indices) that satisfy p_low.y <= y < p_high.y
Crossing(ps, y) ==
    {i \in DOMAIN ps :
        LET a == ps[i]
            b == ps[Succ(ps, i)]
        IN  \/ a.y <= y /\ y < b.y
            \/ b.y <= y /\ y < a.y}

Drawn == last.name = "clear_and_draw"

Vertices(k) == Deref(polygons[k], points)

Triangle == <<Point(0, 0, 0), Point(10, 0, 0), Point(5, 10, 0)>>

RowOf(spans, y) == SelectSeq(spans, LAMBDA s : s.y = y)

TriangleSpans == fill(Triangle, 1)

-----------------------------------------------------------------------------
\* C1: for a convex polygon, fill emits exactly one span for every scan line
\* minY, minY+1, ... below maxY and none for any other row, and the span
\* runs between the leftmost and the rightmost place where the polygon's
\* boundary meets that row; the triangle (0,0),(10,0),(5,10) gets [0,10] on
\* row 0 and [2.5,7.5] on row 5.
C1_ConvexOneSpanPerRow ==
    /\ (Drawn /\ Convex(Vertices(1))) =>
          \A ps \in {Vertices(1)} : \A spans \in {Spans(ops)} :
              /\ \A i \in DOMAIN spans : Lowest(ps) <= spans[i].y /\ spans[i].y < Highest(ps)
              /\ \A y \in Lowest(ps)..(Highest(ps) - 1) :
                    \A row \in {RowOf(spans, y)} : \A xs \in {BoundaryXs(ps, y)} :
                       /\ Len(row) = 1
                       /\ row[1].x1 = LeftMost(xs)
                       /\ row[1].x2 = RightMost(xs)
    /\ RowOf(TriangleSpans, 0) = <<Span(<<0, 1>>, <<10, 1>>, 0, 1)>>
    /\ RowOf(TriangleSpans, 5) = <<Span(<<5, 2>>, <<15, 2>>, 5, 1)>>
    /\ Len(TriangleSpans) = 10

\* a convex polygon with a horizontal edge on its lowest row has been filled,
\* with a span that ends between two pixels
C1_Witness ==
    /\ Drawn
    /\ Convex(Vertices(1))
    /\ \E i \in DOMAIN Vertices(1) :
          /\ Vertices(1)[i].y = Lowest(Vertices(1))
          /\ Vertices(1)[Succ(Vertices(1), i)].y = Lowest(Vertices(1))
    /\ \E i \in DOMAIN Spans(ops) : Spans(ops)[i].x1[2] # 1
    /\ Len(points) = 4

\* C10: on every scan line fill visits, for any vertex loop, the number of
\* collected intersections is the number of edges with p_low.y <= y < p_high.y
\* and is even, so the pairing leaves no intersection without a partner and
\* reads no index past the end of the list.
C10_EvenIntersections ==
    \A ps \in {Vertices(1)} : \A spans \in {Spans(ops)} :
        /\ \A y \in minY(ps)..(maxY(ps) - 1) :
              \A n \in {Len(Intersections(Edges(ps), y))} :
                 /\ n = Cardinality(Crossing(ps, y))
                 /\ n % 2 = 0
                 /\ Drawn => 2 * Len(RowOf(spans, y)) = n
        /\ \A i \in DOMAIN spans : ~isNaN(spans[i].x1) /\ ~isNaN(spans[i].x2)

\* a loop that crosses itself has been filled: some row has four intersections
C10_Witness ==
    /\ Drawn
    /\ ~Convex(Vertices(1))
    /\ \E y \in minY(Vertices(1))..(maxY(Vertices(1)) - 1) :
          /\ Cardinality(Crossing(Vertices(1), y)) = 4
          /\ Len(RowOf(Spans(ops), y)) = 2
          /\ RowOf(Spans(ops), y)[1] # RowOf(Spans(ops), y)[2]


-----------------------------------------------------------------------------
(* The scene: what the properties of the canvas are stated with *)

InBounds(p) == 0 <= p.x /\ p.x <= Width /\ 0 <= p.y /\ p.y <= Height

AllInBounds ==
    /\ \A i \in DOMAIN points : InBounds(points[i])
    /\ \A k \in DOMAIN polygons : \A i \in DOMAIN polygons[k].points :
          InBounds(points[polygons[k].points[i]])

\* the spans of polygons k.. of polys, in order, with the points at pts
RECURSIVE SpansFrom(_, _, _)
SpansFrom(k, polys, pts) ==
    IF k > Len(polys) THEN <<>>
    ELSE fill([i \in DOMAIN polys[k].points |-> pts[polys[k].points[i]]], polys[k].color)
            \o SpansFrom(k + 1, polys, pts)

VerticesAt(polygon, pts) == [i \in DOMAIN polygon.points |-> pts[polygon.points[i]]]

SpansOf(polygon, pts) == SpansFrom(1, <<polygon>>, pts)

\* both ends of every span lie on the boundary of the loop ps
EndOnBoundary(spans, ps) ==
    \A i \in DOMAIN spans :
        /\ spans[i].x1 \in BoundaryXs(ps, spans[i].y)
        /\ spans[i].x2 \in BoundaryXs(ps, spans[i].y)

Within(p, x, y) ==
    (p.x - x) * (p.x - x) + (p.y - y) * (p.y - y) <= POINT_RADIUS * POINT_RADIUS

Dragging == drag_flag

\* C2: addPoint appends the point if and only if 0 <= x <= width and
\* 0 <= y <= height; otherwise it throws the out-of-bounds error and the
\* point list and the polygon list stay as they were.
C2_AddPointIffInBounds ==
    [][last'.name = "addPoint" =>
          LET pt == Point(last'.arg[1], last'.arg[2], last'.arg[3]) IN
          /\ InBounds(pt) => points' = Append(points, pt) /\ last'.err = ""
          /\ ~InBounds(pt) => points' = points /\ last'.err = "Point out of bounds"
          /\ polygons' = polygons]_vars

\* a point one unit beyond the width was refused after a point on the
\* far corner of the surface was accepted
C2_Witness ==
    /\ last.name = "addPoint"
    /\ last.err = "Point out of bounds"
    /\ last.arg[1] = Width + 1
    /\ \E i \in DOMAIN points : points[i].x = Width /\ points[i].y = Height

\* C3: addPolygon appends the polygon if and only if every vertex is in
\* bounds by the coordinates its points hold at the call; otherwise it throws
\* and the polygon list and the point list stay as they were.
C3_AddPolygonIffAllInBounds ==
    [][last'.name = "addPolygon" =>
          LET p == last'.arg
              n == Len(polygons)
          IN  /\ (\A i \in DOMAIN p : InBounds(points[p[i]])) =>
                    /\ Len(polygons') = n + 1
                    /\ SubSeq(polygons', 1, n) = polygons
                    /\ polygons'[n + 1].points = p
                    /\ last'.err = ""
              /\ (\E i \in DOMAIN p : ~InBounds(points[p[i]])) =>
                    /\ polygons' = polygons
                    /\ last'.err = "Polygon out of bounds"
              /\ points' = points]_vars

\* a polygon was refused for a vertex that a drag had moved out of bounds;
\* its other vertices are in bounds and an earlier polygon is in the list
C3_Witness ==
    /\ last.name = "addPolygon"
    /\ last.err = "Polygon out of bounds"
    /\ Len(polygons) = 1
    /\ InBounds(points[last.arg[1]])
    /\ \E i \in DOMAIN last.arg : ~InBounds(points[last.arg[i]])

\* C4, as claimed: in every reachable state every point of the scene and
\* every vertex of every polygon lies within [0,width] x [0,height].
C4_AlwaysInBounds == AllInBounds

\* C4, amended: only a pointer-move while Dragging takes a scene whose points
\* and polygon vertices are all in bounds to one where some are not; addPoint,
\* addPolygon, pointer-down, pointer-up, redraw and a pointer-move while Idle
\* never do.
C4_OnlyDragLeavesBounds ==
    [][(AllInBounds /\ ~(Dragging /\ last'.name = "mousemove")) => AllInBounds']_vars

\* a point out of bounds was refused by a scene that holds a polygon and has
\* all its points in bounds, released after a drag
C4_Witness ==
    /\ AllInBounds
    /\ last.name = "addPoint"
    /\ last.err = "Point out of bounds"
    /\ Len(polygons) >= 1
    /\ drag_offset # <<0, 0>>
    /\ ~Dragging

\* C5: clear_and_draw changes neither list nor any coordinate and issues one
\* clear of the whole surface, then one circle per point in insertion order,
\* then the spans of each polygon in insertion order; a redraw that follows a
\* redraw with the scene unchanged issues the same calls.
C5_RedrawOrder ==
    [][/\ last'.name = "clear_and_draw" =>
             LET n == Len(points) IN
             /\ points' = points /\ polygons' = polygons
             /\ UNCHANGED <<drag_flag, drag_point, drag_offset>>
             /\ Len(ops') >= n + 1
             /\ ops'[1].op = "clear" /\ ops'[1].w = Width /\ ops'[1].h = Height
             /\ \A i \in 1..n :
                   /\ ops'[i + 1].op = "circle"
                   /\ ops'[i + 1].x = points[i].x /\ ops'[i + 1].y = points[i].y
             /\ \A j \in (n + 2)..Len(ops') : ops'[j].op = "span"
             /\ SubSeq(ops', n + 2, Len(ops')) = SpansFrom(1, polygons, points)
       /\ (ops # <<>> /\ ops' # <<>> /\ points' = points /\ polygons' = polygons)
             => ops' = ops]_vars

\* a scene of three points and two different polygons, both with spans, has
\* been redrawn
C5_Witness ==
    /\ Drawn
    /\ Len(points) = 3
    /\ Len(polygons) = 2
    /\ polygons[1] # polygons[2]
    /\ \E i, j \in DOMAIN Spans(ops) : Spans(ops)[i].color # Spans(ops)[j].color

\* C6: a pointer-down grabs the point of lowest index within the hit radius
\* (the radius itself included), enters Dragging and records the offset of the
\* pointer from that point; with no point in reach the drag state stays as it
\* was; no coordinate changes.
C6_PointerDown ==
    [][last'.name = "mousedown" =>
          LET x == last'.arg[1]
              y == last'.arg[2]
              hits == {i \in DOMAIN points : Within(points[i], x, y)}
          IN  /\ hits # {} =>
                    LET g == CHOOSE i \in hits : \A j \in hits : i <= j IN
                    /\ drag_flag'
                    /\ drag_point' = g
                    /\ drag_offset' = <<x - points[g].x, y - points[g].y>>
              /\ hits = {} => UNCHANGED <<drag_flag, drag_point, drag_offset>>
              /\ points' = points /\ polygons' = polygons]_vars

\* the pointer went down out of reach of the first point and exactly one
\* radius from the second, with the third in reach too: the second is grabbed
C6_Witness ==
    /\ last.name = "mousedown"
    /\ drag_flag
    /\ drag_point = 2
    /\ drag_offset[1] * drag_offset[1] + drag_offset[2] * drag_offset[2]
          = POINT_RADIUS * POINT_RADIUS
    /\ Len(points) = 3
    /\ Within(points[3], last.arg[1], last.arg[2])
    /\ ~Within(points[1], last.arg[1], last.arg[2])

\* C7: a pointer-move while Dragging puts the grabbed point at the pointer
\* minus the offset of the grab and redraws once, completely; nothing else
\* changes, no bounds are checked and no error is thrown; the offset changes
\* only on a pointer-down.
C7_DragMove ==
    [][/\ (Dragging /\ last'.name = "mousemove") =>
             LET g == drag_point IN
             /\ g \in DOMAIN points
             /\ Len(points') = Len(points)
             /\ points'[g] = Point(last'.arg[1] - drag_offset[1],
                                   last'.arg[2] - drag_offset[2], points[g].z)
             /\ \A i \in DOMAIN points : i # g => points'[i] = points[i]
             /\ polygons' = polygons
             /\ UNCHANGED <<drag_flag, drag_point, drag_offset>>
             /\ last'.err = ""
             /\ Len(SelectSeq(ops', LAMBDA r : r.op = "clear")) = 1
             /\ ops'[1].op = "clear"
             /\ \A circles \in {Circles(ops')} :
                   /\ Len(circles) = Len(points')
                   /\ \A i \in DOMAIN points' :
                         circles[i].x = points'[i].x /\ circles[i].y = points'[i].y
             /\ Spans(ops') = SpansFrom(1, polygons', points')
       /\ drag_offset' # drag_offset => last'.name = "mousedown"]_vars

\* a drag, grabbed off the point's centre, has moved the point out of bounds
C7_Witness ==
    /\ last.name = "mousemove"
    /\ Dragging
    /\ drag_offset # <<0, 0>>
    /\ ~InBounds(points[drag_point])
    /\ last.err = ""
    /\ ops # <<>>

\* C8: Dragging ends only on a pointer-up, and a pointer-up always ends it
\* and forgets the grabbed point; the controller starts Idle, and a
\* pointer-move while Idle changes no coordinate and draws nothing.
C8_DragEndsOnPointerUp ==
    [][/\ (Dragging /\ ~Dragging') => last'.name = "mouseup"
       /\ (Dragging /\ last'.name \in {"mousemove", "mousedown"}) => Dragging'
       /\ last'.name = "mouseup" => ~Dragging' /\ drag_point' = 0
       /\ last.name = "new Canvas" => ~Dragging
       /\ (~Dragging /\ last'.name = "mousemove") =>
             /\ points' = points
             /\ ops' = <<>>
             /\ ~Dragging']_vars

\* the pointer moved while Idle, after a drag that had moved a point out of
\* bounds was released
C8_Witness ==
    /\ last.name = "mousemove"
    /\ ~Dragging
    /\ drag_point = 0
    /\ ops = <<>>
    /\ \E i \in DOMAIN points : ~InBounds(points[i])

\* C9: the redraw of a drag move fills every polygon from the coordinates
\* its points hold after the move, the grabbed point's new ones included,
\* with no polygon added again: every span ends on the boundary the polygon
\* has after the move; a polygon without the grabbed point gets the spans
\* it had before.
C9_PolygonsReadMovedPoint ==
    [][(Dragging /\ last'.name = "mousemove") =>
          /\ polygons' = polygons
          /\ Spans(ops') = SpansFrom(1, polygons, points')
          /\ \A k \in DOMAIN polygons :
                \A now \in {SpansOf(polygons[k], points')} :
                \A ps \in {VerticesAt(polygons[k], points')} :
                   /\ EndOnBoundary(now, ps)
                   /\ (\A i \in DOMAIN polygons[k].points : polygons[k].points[i] # drag_point)
                         => now = SpansOf(polygons[k], points)]_vars

\* the third point, a vertex of the first polygon and not of the second, is
\* being dragged and has left its corner; both polygons have spans
C9_Witness ==
    /\ last.name = "mousemove"
    /\ Dragging
    /\ drag_point = 3
    /\ Len(polygons) = 2
    /\ \E i \in DOMAIN polygons[1].points : polygons[1].points[i] = 3
    /\ \A i \in DOMAIN polygons[2].points : polygons[2].points[i] # 3
    /\ points[3].x \notin {0, Width}
    /\ \E i, j \in DOMAIN Spans(ops) : Spans(ops)[i].color # Spans(ops)[j].color

=============================================================================
